---- MODULE Spec2Model ----
(***************************************************************************)
(* CloseToJunctionTeller of modules/storytelling: the junction scan over   *)
(* the planned trajectory (GetNearestJunction), its cross-call static      *)
(* overlapping_junction_id, and the CloseToJunction story that Update      *)
(* keeps in Stories.                                                       *)
(***************************************************************************)
EXTENDS Integers, Sequences, FiniteSets, TLC

\* ------------------------------------------------------------------------
\* Bounds of the model
\* ------------------------------------------------------------------------

\* Longest trajectory, in points.
MaxLen == 2

\* FLAGS_adc_trajectory_search_distance, scaled down to the model's
\* arc-length unit.  Arc lengths range over 0 .. SearchDistance + 1, so that
\* a point can lie before, at and beyond the cut-off.
SearchDistance == 1

MaxS == SearchDistance + 1

\* Update calls counted on one snapshot; the count saturates here.
MaxCalls == 2

\* ------------------------------------------------------------------------
\* The HD map (external): what GetJunctions / GetPNCJunctions return around
\* each position.  A candidate is a JunctionInfo (id, polygon point count)
\* or the null pointer.
\* ------------------------------------------------------------------------

Null == [null |-> TRUE, id |-> "", point_size |-> 0]

Info(id, n) == [null |-> FALSE, id |-> id, point_size |-> n]

\* Positions the trajectory can pass through:
\*   N   nothing mapped around it
\*   D   only unusable first candidates (null plain junction, degenerate PNC
\*       polygon) in front of usable later ones
\*   JA  inside plain junction "A" only
\*   JB  inside plain junction "B" only
\*   JE  inside a plain junction whose id is the empty string
\*   P   inside PNC junction "P" only
\*   PA  inside PNC junction "P" and plain junction "A"
\*   QB  inside PNC junction "Q" and plain junction "B"
Positions == {"N", "D", "JA", "JB", "JE", "P", "PA", "QB"}

\* One position more, which only the point-by-point scans below pass through:
\*   D2  like D with the kinds exchanged (degenerate plain polygon, null PNC
\*       junction, usable later candidates)
ScanPositions == Positions \cup {"D2"}

GetJunctions(xy) ==
  CASE xy = "JA" -> <<Info("A", 4)>>
    [] xy = "PA" -> <<Info("A", 4), Info("B", 4)>>
    [] xy = "JB" -> <<Info("B", 3)>>
    [] xy = "QB" -> <<Info("B", 3)>>
    [] xy = "JE" -> <<Info("", 4)>>
    [] xy = "D"  -> <<Null, Info("A", 4)>>
    [] xy = "D2" -> <<Info("A", 2), Info("B", 4)>>
    [] OTHER     -> <<>>

GetPNCJunctions(xy) ==
  CASE xy = "P"  -> <<Info("P", 4)>>
    [] xy = "PA" -> <<Info("P", 3)>>
    [] xy = "QB" -> <<Info("Q", 5), Info("P", 4)>>
    [] xy = "D"  -> <<Info("P", 2), Info("P", 4)>>
    [] xy = "D2" -> <<Null, Info("Q", 4)>>
    [] OTHER     -> <<>>

\* ------------------------------------------------------------------------
\* Trajectories
\* ------------------------------------------------------------------------

PathPoints == [s : 0..MaxS, xy : Positions]

ScanPoints == [s : 0..MaxS, xy : ScanPositions]

\* ------------------------------------------------------------------------
\* IsPointInPNCJunction / IsPointInJunction
\* ------------------------------------------------------------------------

NotFound == [found |-> FALSE, id |-> ""]

\* Variant: the first usable candidate is taken, wherever it stands.
IsPointInPNCJunction_AnyCandidate(point) ==
  LET pnc_junctions == GetPNCJunctions(point.xy)
      usable == {k \in 1..Len(pnc_junctions) :
                   ~pnc_junctions[k].null /\ pnc_junctions[k].point_size >= 3}
  IN IF usable = {}
       THEN NotFound
       ELSE [found |-> TRUE,
             id |-> pnc_junctions[CHOOSE k \in usable : \A m \in usable : k <= m].id]

IsPointInPNCJunction(point) ==
  LET pnc_junctions == GetPNCJunctions(point.xy) IN
    IF pnc_junctions = <<>> \/ Head(pnc_junctions).null
      THEN NotFound
      ELSE IF Head(pnc_junctions).point_size >= 3
             THEN [found |-> TRUE, id |-> Head(pnc_junctions).id]
             ELSE NotFound

IsPointInJunction(point) ==
  LET junctions == GetJunctions(point.xy) IN
    IF junctions = <<>> \/ Head(junctions).null
      THEN NotFound
      ELSE IF Head(junctions).point_size >= 3
             THEN [found |-> TRUE, id |-> Head(junctions).id]
             ELSE NotFound

\* ------------------------------------------------------------------------
\* GetNearestJunction
\* ------------------------------------------------------------------------

\* Variant: the distance starts at 0 instead of the negative sentinel.
ScanStart_ZeroDistance(overlapping) ==
  [id |-> "", type |-> "UNSET", distance |-> 0,
   overlapping |-> overlapping, examined |-> 0, brk |-> FALSE]

\* The out-parameters as the function's first two statements leave them,
\* with the value of the static overlapping_junction_id at entry; *type is
\* not assigned.  examined counts the points classified so far, brk is the
\* loop's break.
ScanStart(overlapping) ==
  [id |-> "", type |-> "UNSET", distance |-> -1,
   overlapping |-> overlapping, examined |-> 0, brk |-> FALSE]

\* Variant: the search distance never ends the loop.
BeyondSearchDistance_Never(path_point, s_start) == FALSE

\* if (path_point.s() > FLAGS_adc_trajectory_search_distance) break;
BeyondSearchDistance(path_point, s_start) ==
  path_point.s > SearchDistance

\* Variant: the static is left alone when no plain junction is co-located.
PncJunctionBranch_KeepsStatic(r, pnc, junction, path_point, s_start) ==
  [r EXCEPT !.id = pnc.id,
            !.type = "PNC_JUNCTION",
            !.distance = path_point.s - s_start,
            !.overlapping = IF junction.found THEN junction.id ELSE @,
            !.brk = TRUE]

\* Variant: a PNC match never stores the co-located plain junction.
PncJunctionBranch_NeverArms(r, pnc, junction, path_point, s_start) ==
  [r EXCEPT !.id = pnc.id,
            !.type = "PNC_JUNCTION",
            !.distance = path_point.s - s_start,
            !.overlapping = "",
            !.brk = TRUE]

\* Variant: the comparison with the static is applied to the co-located plain
\* junction of a PNC match as well.
PncJunctionBranch_Hysteresis(r, pnc, junction, path_point, s_start) ==
  IF junction.found /\ junction.id = r.overlapping
    THEN [r EXCEPT !.brk = TRUE]
    ELSE [r EXCEPT !.id = pnc.id,
                   !.type = "PNC_JUNCTION",
                   !.distance = path_point.s - s_start,
                   !.overlapping = IF junction.found THEN junction.id ELSE "",
                   !.brk = TRUE]

\* if (pnc_junction) { ... break; }
PncJunctionBranch(r, pnc, junction, path_point, s_start) ==
  [r EXCEPT !.id = pnc.id,
            !.type = "PNC_JUNCTION",
            !.distance = path_point.s - s_start,
            !.overlapping = IF junction.found THEN junction.id ELSE "",
            !.brk = TRUE]

\* Variant: no comparison with the static, every plain junction is reported.
JunctionBranch_NoSuppression(r, junction, path_point, s_start) ==
  [r EXCEPT !.id = junction.id,
            !.type = "JUNCTION",
            !.distance = path_point.s - s_start,
            !.brk = TRUE]

\* Variant: a suppressed match consumes the static.
JunctionBranch_OneShot(r, junction, path_point, s_start) ==
  IF junction.id # r.overlapping
    THEN [r EXCEPT !.id = junction.id,
                   !.type = "JUNCTION",
                   !.distance = path_point.s - s_start,
                   !.brk = TRUE]
    ELSE [r EXCEPT !.overlapping = "", !.brk = TRUE]

\* Variant: a reported plain junction is remembered in the static.
JunctionBranch_Remembers(r, junction, path_point, s_start) ==
  IF junction.id # r.overlapping
    THEN [r EXCEPT !.id = junction.id,
                   !.type = "JUNCTION",
                   !.distance = path_point.s - s_start,
                   !.overlapping = junction.id,
                   !.brk = TRUE]
    ELSE [r EXCEPT !.brk = TRUE]

\* Variant: reporting a plain junction empties the static.
JunctionBranch_ClearsOnEmit(r, junction, path_point, s_start) ==
  IF junction.id # r.overlapping
    THEN [r EXCEPT !.id = junction.id,
                   !.type = "JUNCTION",
                   !.distance = path_point.s - s_start,
                   !.overlapping = "",
                   !.brk = TRUE]
    ELSE [r EXCEPT !.brk = TRUE]

\* Variant: the distance is the point's arc length, not its offset.
JunctionBranch_AbsoluteS(r, junction, path_point, s_start) ==
  IF junction.id # r.overlapping
    THEN [r EXCEPT !.id = junction.id,
                   !.type = "JUNCTION",
                   !.distance = path_point.s,
                   !.brk = TRUE]
    ELSE [r EXCEPT !.brk = TRUE]

\* else if (junction) { if (junction_id != overlapping_junction_id) ...; break; }
JunctionBranch(r, junction, path_point, s_start) ==
  IF junction.id # r.overlapping
    THEN [r EXCEPT !.id = junction.id,
                   !.type = "JUNCTION",
                   !.distance = path_point.s - s_start,
                   !.brk = TRUE]
    ELSE [r EXCEPT !.brk = TRUE]

\* Variant: the static survives a point outside every junction.
NeitherBranch_NoClear(r) == r

\* else { overlapping_junction_id.clear(); }
NeitherBranch(r) ==
  [r EXCEPT !.overlapping = ""]

\* Variant: the plain junction is tested before the PNC junction.
LoopBody_PlainFirst(r, path_point, s_start) ==
  LET junction == IsPointInJunction(path_point)
      pnc == IsPointInPNCJunction(path_point)
      r1 == [r EXCEPT !.examined = @ + 1]
  IN IF junction.found
       THEN JunctionBranch(r1, junction, path_point, s_start)
       ELSE IF pnc.found
              THEN PncJunctionBranch(r1, pnc, junction, path_point, s_start)
              ELSE NeitherBranch(r1)

\* One iteration of the loop on a point inside the search distance.
LoopBody(r, path_point, s_start) ==
  LET junction == IsPointInJunction(path_point)
      pnc == IsPointInPNCJunction(path_point)
      r1 == [r EXCEPT !.examined = @ + 1]
  IN IF pnc.found
       THEN PncJunctionBranch(r1, pnc, junction, path_point, s_start)
       ELSE IF junction.found
              THEN JunctionBranch(r1, junction, path_point, s_start)
              ELSE NeitherBranch(r1)

RECURSIVE ScanLoop(_, _, _, _)
ScanLoop(trajectory_point, i, s_start, r) ==
  IF i > Len(trajectory_point) \/ r.brk
    THEN r
    ELSE IF BeyondSearchDistance(trajectory_point[i], s_start)
           THEN r
           ELSE ScanLoop(trajectory_point, i + 1, s_start,
                         LoopBody(r, trajectory_point[i], s_start))

GetNearestJunction(trajectory_point, overlapping) ==
  LET s_start == trajectory_point[1].s
      r == ScanLoop(trajectory_point, 1, s_start, ScanStart(overlapping))
  IN [id |-> r.id, type |-> r.type, distance |-> r.distance,
      overlapping |-> r.overlapping, examined |-> r.examined]

\* ------------------------------------------------------------------------
\* CloseToJunctionTeller::Update
\* ------------------------------------------------------------------------

NoStory == [has_close_to_junction |-> FALSE, id |-> "", type |-> "UNSET", distance |-> 0]

NoScan == [id |-> "", type |-> "UNSET", distance |-> -1, overlapping |-> "", examined |-> 0]

NotReadyMsg == "ERROR Planning trajectory not ready."

EnterMsg == "INFO Enter CloseToJunction story"

ExitMsg == "INFO Exit CloseToJunction story"

\* trajectory == nullptr || trajectory->trajectory_point().empty()
TrajectoryNotReady(trajectory) ==
  ~trajectory.observed \/ Len(trajectory.trajectory_point) = 0

\* Variant: the early return drops the story.
NotReadyReturn_ClearsStory(st, overlapping) ==
  [stories |-> NoStory, overlapping |-> overlapping, scan |-> NoScan,
   log |-> <<NotReadyMsg>>]

\* The early return: nothing but the error message.
NotReadyReturn(st, overlapping) ==
  [stories |-> st, overlapping |-> overlapping, scan |-> NoScan,
   log |-> <<NotReadyMsg>>]

\* Variant: "Enter" is logged on every close cycle.
ApplyScan_AlwaysEnter(st, scan) ==
  IF scan.distance >= 0
    THEN [stories |-> [has_close_to_junction |-> TRUE, id |-> scan.id,
                       type |-> scan.type, distance |-> scan.distance],
          log |-> <<EnterMsg>>]
    ELSE IF st.has_close_to_junction
           THEN [stories |-> NoStory, log |-> <<ExitMsg>>]
           ELSE [stories |-> st, log |-> <<>>]

\* Variant: the story's fields are written on the entering cycle only.
ApplyScan_SetOnEnter(st, scan) ==
  IF scan.distance >= 0
    THEN IF ~st.has_close_to_junction
           THEN [stories |-> [has_close_to_junction |-> TRUE, id |-> scan.id,
                              type |-> scan.type, distance |-> scan.distance],
                 log |-> <<EnterMsg>>]
           ELSE [stories |-> st, log |-> <<>>]
    ELSE IF st.has_close_to_junction
           THEN [stories |-> NoStory, log |-> <<ExitMsg>>]
           ELSE [stories |-> st, log |-> <<>>]

\* Variant: the sentinel -1 counts as close.
ApplyScan_CloseOnSentinel(st, scan) ==
  IF scan.distance >= -1
    THEN [stories |-> [has_close_to_junction |-> TRUE, id |-> scan.id,
                       type |-> scan.type, distance |-> scan.distance],
          log |-> IF ~st.has_close_to_junction THEN <<EnterMsg>> ELSE <<>>]
    ELSE IF st.has_close_to_junction
           THEN [stories |-> NoStory, log |-> <<ExitMsg>>]
           ELSE [stories |-> st, log |-> <<>>]

\* What Update does to the story with the scan's result.
ApplyScan(st, scan) ==
  IF scan.distance >= 0
    THEN [stories |-> [has_close_to_junction |-> TRUE, id |-> scan.id,
                       type |-> scan.type, distance |-> scan.distance],
          log |-> IF ~st.has_close_to_junction THEN <<EnterMsg>> ELSE <<>>]
    ELSE IF st.has_close_to_junction
           THEN [stories |-> NoStory, log |-> <<ExitMsg>>]
           ELSE [stories |-> st, log |-> <<>>]

UpdateResult(trajectory, st, overlapping) ==
  IF TrajectoryNotReady(trajectory)
    THEN NotReadyReturn(st, overlapping)
    ELSE LET scan == GetNearestJunction(trajectory.trajectory_point, overlapping)
             a == ApplyScan(st, scan)
         IN [stories |-> a.stories, overlapping |-> scan.overlapping,
             scan |-> scan, log |-> a.log]

\* ------------------------------------------------------------------------
\* State
\* ------------------------------------------------------------------------

VARIABLES
  latest,                   \* planning_reader->GetLatestObserved()
  overlapping_junction_id,  \* the static of GetNearestJunction
  stories,                  \* Stories::close_to_junction
  cycle,                    \* the last Update call on the current snapshot, if any:
                            \* how many were made on it, and for the last one the
                            \* static and the story it started from, the scan's
                            \* out-parameters and the messages it logged
  prior_overlap,            \* whether the most recent Update call scanned and was
                            \* decided by a point in a PNC junction and a plain
                            \* junction, and that plain junction's id
  scans                     \* GetNearestJunction calls followed point by point:
                            \* for each its trajectory, loop position, locals
                            \* and out-parameters (none in Spec, where a scan
                            \* is one step of Update)

vars == <<latest, overlapping_junction_id, stories, cycle, prior_overlap, scans>>

NoTrajectory == [observed |-> FALSE, trajectory_point |-> <<>>]

NoOverlap == [hit |-> FALSE, id |-> ""]

NoCycle ==
  [calls |-> 0, ready |-> FALSE, before |-> "", had |-> NoStory,
   scan |-> NoScan, log |-> <<>>, after |-> NoOverlap]

\* The overlap that decided a scan of trajectory_point, if one did.
DecidingOverlap(trajectory_point, scan) ==
  IF scan.examined >= 1
       /\ IsPointInPNCJunction(trajectory_point[scan.examined]).found
       /\ IsPointInJunction(trajectory_point[scan.examined]).found
    THEN [hit |-> TRUE, id |-> IsPointInJunction(trajectory_point[scan.examined]).id]
    ELSE NoOverlap

Init ==
  /\ latest = NoTrajectory
  /\ overlapping_junction_id = ""
  /\ stories = NoStory
  /\ cycle = NoCycle
  /\ prior_overlap = NoOverlap
  /\ scans = <<>>

\* The planning channel delivers a new snapshot.  Successive snapshots are
\* taken one elementary change apart (a point more at the far end, the
\* nearest point passed, an empty message); Update may run on any of them or
\* skip any number of them, so every sequence of snapshots is covered.
ExtendTrajectory ==
  \E p \in PathPoints :
    /\ Len(latest.trajectory_point) < MaxLen
    /\ Len(latest.trajectory_point) > 0 =>
         latest.trajectory_point[Len(latest.trajectory_point)].s <= p.s
    /\ latest' = [observed |-> TRUE,
                  trajectory_point |-> Append(latest.trajectory_point, p)]
    /\ cycle' = NoCycle
    /\ UNCHANGED <<overlapping_junction_id, stories, prior_overlap, scans>>

AdvanceTrajectory ==
  /\ Len(latest.trajectory_point) > 0
  /\ latest' = [observed |-> TRUE,
                trajectory_point |-> Tail(latest.trajectory_point)]
  /\ cycle' = NoCycle
  /\ UNCHANGED <<overlapping_junction_id, stories, prior_overlap, scans>>

EmptyTrajectory ==
  /\ ~latest.observed
  /\ latest' = [observed |-> TRUE, trajectory_point |-> <<>>]
  /\ cycle' = NoCycle
  /\ UNCHANGED <<overlapping_junction_id, stories, prior_overlap, scans>>

Update ==
  LET u == UpdateResult(latest, stories, overlapping_junction_id) IN
    /\ stories' = u.stories
    /\ overlapping_junction_id' = u.overlapping
    /\ cycle' = [calls |-> IF cycle.calls < MaxCalls THEN cycle.calls + 1 ELSE MaxCalls,
                 ready |-> ~TrajectoryNotReady(latest),
                 before |-> overlapping_junction_id,
                 had |-> stories,
                 scan |-> u.scan,
                 log |-> u.log,
                 after |-> prior_overlap]
    /\ prior_overlap' = IF TrajectoryNotReady(latest)
                          THEN NoOverlap
                          ELSE DecidingOverlap(latest.trajectory_point, u.scan)
    /\ UNCHANGED <<latest, scans>>

Next ==
  \/ ExtendTrajectory
  \/ AdvanceTrajectory
  \/ EmptyTrajectory
  \/ Update

Spec == Init /\ [][Next]_vars

\* ------------------------------------------------------------------------
\* GetNearestJunction point by point
\* ------------------------------------------------------------------------

\* The values the static can hold: empty, or the id of a plain junction of
\* the map.
StaticValues == {""} \cup {IsPointInJunction(p).id : p \in ScanPoints}

\* A call at its entry: out-parameters initialised, s_start read, the loop
\* at the first point.  entry remembers the static at the moment the calls
\* were made, visited the points classified so far, overlapped whether
\* another call ran an iteration between two iterations of this one.
Call(trajectory_point, overlapping) ==
  [trajectory_point |-> trajectory_point,
   s_start |-> trajectory_point[1].s,
   i |-> 1,
   r |-> ScanStart(overlapping),
   done |-> FALSE,
   entry |-> overlapping,
   visited |-> <<>>,
   overlapped |-> FALSE]

\* The other calls as an iteration of call k leaves them.
Bystander(c) ==
  [c EXCEPT !.overlapped = @ \/ (c.i > 1 /\ ~c.done)]

\* One iteration of the for loop of call k: the loop test, the search
\* distance test and, if both let it, the body on the next point, which
\* reads and writes the static.
ScanStep(k) ==
  /\ ~scans[k].done
  /\ LET c == scans[k]
         others == [j \in DOMAIN scans |-> Bystander(scans[j])]
     IN IF c.i > Len(c.trajectory_point)
             \/ BeyondSearchDistance(c.trajectory_point[c.i], c.s_start)
          THEN /\ scans' = [others EXCEPT ![k] = [c EXCEPT !.done = TRUE]]
               /\ UNCHANGED overlapping_junction_id
          ELSE LET r == LoopBody([c.r EXCEPT !.overlapping = overlapping_junction_id],
                                 c.trajectory_point[c.i], c.s_start)
               IN /\ scans' = [others EXCEPT ![k] =
                                 [c EXCEPT !.r = r,
                                           !.i = c.i + 1,
                                           !.done = r.brk,
                                           !.visited = Append(c.visited, c.i)]]
                  /\ overlapping_junction_id' = r.overlapping
  /\ UNCHANGED <<latest, stories, cycle, prior_overlap>>

ScanNext == \E k \in DOMAIN scans : ScanStep(k)

\* The trajectories a single call is followed on: every non-empty one.
RECURSIVE TrajectoriesOver(_, _)
TrajectoriesOver(points, n) ==
  IF n = 0
    THEN {<<>>}
    ELSE LET shorter == TrajectoriesOver(points, n - 1)
         IN shorter \cup
            {Append(t, p) : t \in {u \in shorter : Len(u) = n - 1},
                            p \in points}

Monotone(t) == \A j \in 1..(Len(t) - 1) : t[j].s <= t[j + 1].s

ScanTrajectories ==
  {t \in TrajectoriesOver(ScanPoints, MaxLen) : Len(t) >= 1 /\ Monotone(t)}

\* One call, from any value of the static.
InitScan ==
  /\ latest = NoTrajectory
  /\ stories = NoStory
  /\ cycle = NoCycle
  /\ prior_overlap = NoOverlap
  /\ overlapping_junction_id \in StaticValues
  /\ \E t \in ScanTrajectories :
       scans = <<Call(t, overlapping_junction_id)>>

\* Every call of GetNearestJunction runs its loop to the end: nothing in the
\* loop waits.
SpecScan == InitScan /\ [][ScanNext]_vars /\ WF_vars(ScanNext)

\* Two calls on the same static, as a concurrent framework would make them.
\* Their trajectories lie at the trajectory start (s = 0) and pass outside
\* every junction, through plain junction "A" only and through the overlap of
\* the PNC junction with "A".
RacePoints == {p \in PathPoints : p.s = 0 /\ p.xy \in {"N", "JA", "PA"}}

RaceTrajectories ==
  {t \in TrajectoriesOver(RacePoints, MaxLen) : Len(t) >= 1}

InitRace ==
  /\ latest = NoTrajectory
  /\ stories = NoStory
  /\ cycle = NoCycle
  /\ prior_overlap = NoOverlap
  /\ overlapping_junction_id \in StaticValues
  /\ \E t1, t2 \in RaceTrajectories :
       scans = <<Call(t1, overlapping_junction_id), Call(t2, overlapping_junction_id)>>

SpecRace == InitRace /\ [][ScanNext]_vars

\* ------------------------------------------------------------------------
\* Vocabulary of the properties
\* ------------------------------------------------------------------------

Traj == latest.trajectory_point

\* The state is the one a completed scan left: Update ran on the current
\* snapshot and did not return early.
Scanned == cycle.calls >= 1 /\ cycle.ready

\* Update ran on the current snapshot and returned early.
Skipped == cycle.calls >= 1 /\ ~cycle.ready

InPnc(i) == IsPointInPNCJunction(Traj[i]).found

InPlain(i) == IsPointInJunction(Traj[i]).found

PncId(i) == IsPointInPNCJunction(Traj[i]).id

PlainId(i) == IsPointInJunction(Traj[i]).id

PlainOnly(i) == InPlain(i) /\ ~InPnc(i)

Neither(i) == ~InPlain(i) /\ ~InPnc(i)

Offset(i) == Traj[i].s - Traj[1].s

\* The points the scan classified are 1 .. cycle.scan.examined.
Examined(i) == i \in 1..cycle.scan.examined

\* i is the first examined point that matches any junction kind.
FirstMatch(i) ==
  /\ Examined(i)
  /\ InPnc(i) \/ InPlain(i)
  /\ \A j \in 1..(i - 1) : Neither(j)

\* The static when point i was examined: the entry value at the first point,
\* empty once a point outside every junction has been passed.
StaticAt(i) == IF i = 1 THEN cycle.before ELSE ""

Logged(m) == \E k \in 1..Len(cycle.log) : cycle.log[k] = m

\* ------------------------------------------------------------------------
\* C1  PNC priority: when the first examined point that matches any junction
\* kind matches a PNC junction (with or without a plain junction at the same
\* point), the scan returns PNC_JUNCTION, the PNC junction's id and the
\* point's s minus the first point's s, whatever the static held at entry.
\* ------------------------------------------------------------------------
C1_PncPriority ==
  Scanned =>
    \A i \in 1..Len(Traj) :
      (FirstMatch(i) /\ InPnc(i)) =>
        /\ cycle.scan.type = "PNC_JUNCTION"
        /\ cycle.scan.id = PncId(i)
        /\ cycle.scan.distance = Offset(i)

\* A scan entered with the static armed, decided at its second point, which
\* lies in the PNC junction and in plain junction A, at a positive distance.
C1_Witness ==
  /\ Scanned
  /\ cycle.before = "A"
  /\ Len(Traj) = 2 /\ FirstMatch(2)
  /\ InPnc(2) /\ InPlain(2)
  /\ cycle.scan.type = "PNC_JUNCTION"
  /\ cycle.scan.distance > 0

\* ------------------------------------------------------------------------
\* C2  Hysteresis suppression: when the static equals A at entry and the
\* first examined point lies in plain junction A only, the scan stops at that
\* point with distance -1 and an empty id, examines no later point, and the
\* Update of that cycle leaves no story and logs no "Enter".
\* ------------------------------------------------------------------------
C2_Suppression ==
  (Scanned /\ Examined(1) /\ PlainOnly(1) /\ PlainId(1) = cycle.before) =>
    /\ cycle.scan.distance = -1
    /\ cycle.scan.id = ""
    /\ cycle.scan.examined = 1
    /\ ~stories.has_close_to_junction
    /\ ~Logged(EnterMsg)

\* The static was "A", the story was present, the first point is in A only
\* and a second point inside the PNC junction was never looked at.
C2_Witness ==
  /\ Scanned
  /\ cycle.before = "A"
  /\ cycle.had.has_close_to_junction
  /\ Len(Traj) = 2
  /\ PlainOnly(1) /\ PlainId(1) = "A"
  /\ InPnc(2) /\ Traj[2].s <= SearchDistance
  /\ cycle.scan.examined = 1
  /\ ~stories.has_close_to_junction

\* The last scan broke off at a plain-only point whose id the static held:
\* no junction reported although the scan reached one.
SuppressedOn(id) ==
  /\ Scanned
  /\ cycle.scan.examined >= 1
  /\ PlainOnly(cycle.scan.examined)
  /\ PlainId(cycle.scan.examined) = id
  /\ cycle.scan.distance < 0

\* ------------------------------------------------------------------------
\* C3 as stated  Suppression is one-shot: of consecutive scans whose first
\* examined point is in plain junction A only, with A stored by a PNC overlap,
\* at most the first is suppressed; so the second and later scan of one such
\* snapshot is not suppressed.
\* ------------------------------------------------------------------------
C3_OneShot ==
  (Scanned /\ cycle.calls >= 2 /\ cycle.before # ""
     /\ Examined(1) /\ PlainOnly(1) /\ PlainId(1) = cycle.before) =>
    cycle.scan.distance >= 0

\* ------------------------------------------------------------------------
\* C3 amended  Suppression persists: a suppressed scan leaves the static as
\* it found it, so every consecutive scan whose first examined point is in
\* plain junction A only is suppressed, the second and later ones included,
\* for as long as no scan examines a point in a PNC junction or in no junction.
\* ------------------------------------------------------------------------
C3_SuppressionPersists ==
  (Scanned /\ cycle.before # ""
     /\ Examined(1) /\ PlainOnly(1) /\ PlainId(1) = cycle.before) =>
    /\ SuppressedOn(cycle.before)
    /\ overlapping_junction_id = cycle.before
    /\ GetNearestJunction(Traj, overlapping_junction_id).distance = -1

\* The second consecutive scan of a snapshot that starts in plain junction A
\* only was suppressed like the first, and the static is still "A".
C3_Witness ==
  /\ Scanned
  /\ cycle.calls >= 2
  /\ cycle.before = "A"
  /\ PlainOnly(1) /\ PlainId(1) = "A"
  /\ SuppressedOn("A")
  /\ overlapping_junction_id = "A"

\* ------------------------------------------------------------------------
\* C4 as stated  Search window: a point is examined exactly when its offset
\* s - s_start does not exceed the maximum search distance and no earlier
\* point was decisive, for every s_start.
\* ------------------------------------------------------------------------
C4_WindowByOffset ==
  Scanned =>
    \A i \in 1..Len(Traj) :
      Examined(i) <=>
        /\ Offset(i) <= SearchDistance
        /\ \A j \in 1..(i - 1) : Neither(j)

\* ------------------------------------------------------------------------
\* C5  Story lifecycle: after a cycle that scanned, the story is present iff
\* the scan's distance is >= 0; "Enter" is logged exactly when the story went
\* from absent to present, "Exit" exactly when it went from present to
\* absent, and nothing else is logged.
\* ------------------------------------------------------------------------
C5_Lifecycle ==
  Scanned =>
    /\ stories.has_close_to_junction <=> cycle.scan.distance >= 0
    /\ Logged(EnterMsg) <=>
         (~cycle.had.has_close_to_junction /\ stories.has_close_to_junction)
    /\ Logged(ExitMsg) <=>
         (cycle.had.has_close_to_junction /\ ~stories.has_close_to_junction)
    /\ Len(cycle.log) <= 1
    /\ ~Logged(NotReadyMsg)

\* An exit cycle: the story was there (so an enter cycle came before), the
\* scan found nothing, the story is gone and "Exit" is the one message.
C5_Witness ==
  /\ Scanned
  /\ cycle.had.has_close_to_junction
  /\ cycle.scan.distance < 0
  /\ ~stories.has_close_to_junction
  /\ cycle.log = <<ExitMsg>>

\* ------------------------------------------------------------------------
\* C6  Idempotence of Update: when Update is called again on the same
\* snapshot and map, the story after the second and every later call is the
\* story the call before it left, whatever the static and the story were
\* before the first call.
\* ------------------------------------------------------------------------
C6_Idempotent ==
  (cycle.calls >= 2) => stories = cycle.had

\* A second call on a snapshot whose first call was entered with the static
\* armed on the junction the snapshot starts in: the story stays absent.
\* (The first call's suppression is the case in which a static consumed by
\* the scan would make the second call differ.)
C6_Witness ==
  /\ cycle.calls >= 2
  /\ Scanned
  /\ cycle.before = "A"
  /\ PlainOnly(1) /\ PlainId(1) = "A"
  /\ stories = cycle.had
  /\ ~stories.has_close_to_junction

\* ------------------------------------------------------------------------
\* C7  Hysteresis arming: when the scan's decisive point matches a PNC
\* junction, the static after the scan is the id of the plain junction
\* matched at that point, or empty if there is none, whatever it held before.
\* ------------------------------------------------------------------------
C7_Arming ==
  (Scanned /\ cycle.scan.examined >= 1 /\ InPnc(cycle.scan.examined)) =>
    overlapping_junction_id =
      (IF InPlain(cycle.scan.examined) THEN PlainId(cycle.scan.examined) ELSE "")

\* The static held "A"; the first point is in the PNC junction alone and the
\* scan emptied it.
C7_Witness ==
  /\ Scanned
  /\ cycle.before = "A"
  /\ InPnc(1) /\ ~InPlain(1)
  /\ cycle.scan.type = "PNC_JUNCTION"
  /\ overlapping_junction_id = ""

\* ------------------------------------------------------------------------
\* C8  Hysteresis clearing: an examined point in neither kind empties the
\* static, so a plain-only match of the formerly stored id A (A a stored id,
\* hence not the empty string) that follows such a point, later in the same
\* scan or first in a later scan, is reported as JUNCTION A.
\* ------------------------------------------------------------------------
C8_Clearing ==
  Scanned =>
    /\ (cycle.scan.examined >= 1 /\ Neither(cycle.scan.examined)) =>
         overlapping_junction_id = ""
    /\ \A i \in 2..Len(Traj) :
         (Examined(i) /\ Neither(i - 1) /\ PlainOnly(i) /\ PlainId(i) # "") =>
           /\ cycle.scan.type = "JUNCTION"
           /\ cycle.scan.id = PlainId(i)
           /\ cycle.scan.distance = Offset(i)
    /\ (cycle.scan.examined >= 1 /\ Neither(cycle.scan.examined)) =>
         \A p \in PathPoints :
           (IsPointInJunction(p).found /\ ~IsPointInPNCJunction(p).found
              /\ IsPointInJunction(p).id # "" /\ p.s <= SearchDistance) =>
             LET next == GetNearestJunction(<<p>>, overlapping_junction_id)
             IN next.type = "JUNCTION" /\ next.id = IsPointInJunction(p).id

\* The static held "A", the first point is outside every junction, the
\* second is in plain junction A only, and the scan reports JUNCTION "A".
C8_Witness ==
  /\ Scanned
  /\ cycle.before = "A"
  /\ Len(Traj) = 2
  /\ Neither(1)
  /\ PlainOnly(2) /\ PlainId(2) = "A"
  /\ cycle.scan.type = "JUNCTION" /\ cycle.scan.id = "A"

\* ------------------------------------------------------------------------
\* C9  Plain junction result: when the first examined point that matches any
\* kind matches a plain junction only and its id differs from the static at
\* that moment, the scan returns JUNCTION with that id and the point's s
\* minus the first point's s, and examines no later point.
\* ------------------------------------------------------------------------
C9_PlainResult ==
  Scanned =>
    \A i \in 1..Len(Traj) :
      (FirstMatch(i) /\ PlainOnly(i) /\ PlainId(i) # StaticAt(i)) =>
        /\ cycle.scan.type = "JUNCTION"
        /\ cycle.scan.id = PlainId(i)
        /\ cycle.scan.distance = Offset(i)
        /\ cycle.scan.examined = i

\* The static held "A"; the trajectory starts at s > 0 in plain junction "B"
\* only and goes on into the PNC junction, which the scan never looks at.
C9_Witness ==
  /\ Scanned
  /\ cycle.before = "A"
  /\ Len(Traj) = 2
  /\ Traj[1].s > 0 /\ Traj[2].s <= SearchDistance
  /\ PlainOnly(1) /\ PlainId(1) = "B"
  /\ InPnc(2)
  /\ cycle.scan.type = "JUNCTION" /\ cycle.scan.id = "B"
  /\ cycle.scan.distance = 0
  /\ cycle.scan.examined = 1

\* ------------------------------------------------------------------------
\* C10  Not ready: an Update with no snapshot or with a snapshot of zero
\* points leaves the story as it was (present with the same id, kind and
\* distance, or absent), leaves the static as it was, and logs neither
\* "Enter" nor "Exit".
\* ------------------------------------------------------------------------
C10_NotReady ==
  (cycle.calls >= 1 /\ TrajectoryNotReady(latest)) =>
    /\ ~cycle.ready
    /\ stories = cycle.had
    /\ overlapping_junction_id = cycle.before
    /\ ~Logged(EnterMsg)
    /\ ~Logged(ExitMsg)

\* Update ran on an empty snapshot while the story was present and the
\* static armed; both are as they were.
C10_Witness ==
  /\ Skipped
  /\ latest.observed /\ Len(Traj) = 0
  /\ cycle.had.has_close_to_junction
  /\ stories.has_close_to_junction
  /\ cycle.before = "A"
  /\ cycle.log = <<NotReadyMsg>>

\* ------------------------------------------------------------------------
\* C11  Story contents follow the latest scan: after every Update whose scan
\* returns distance >= 0, the story's id, kind and distance are that scan's,
\* whether the story was absent or already present before the call.
\* ------------------------------------------------------------------------
C11_StoryFollowsScan ==
  (Scanned /\ cycle.scan.distance >= 0) =>
    stories = [has_close_to_junction |-> TRUE, id |-> cycle.scan.id,
               type |-> cycle.scan.type, distance |-> cycle.scan.distance]

\* An ACTIVE to ACTIVE cycle that changed the record: the story was present
\* with another id and now carries the id of this cycle's scan.
C11_Witness ==
  /\ Scanned
  /\ cycle.had.has_close_to_junction
  /\ cycle.scan.distance >= 0
  /\ cycle.had.id # cycle.scan.id
  /\ cycle.had.type # cycle.scan.type
  /\ stories.id = cycle.scan.id

\* ------------------------------------------------------------------------
\* C12  No junction: when no trajectory point within the search distance
\* matches either junction kind, the scan returns distance -1 and an empty
\* id for every value of the static at entry, and the story is absent after
\* the Update.
\* ------------------------------------------------------------------------
C12_NoJunction ==
  (Scanned /\ \A i \in 1..Len(Traj) : Traj[i].s <= SearchDistance => Neither(i)) =>
    /\ cycle.scan.distance = -1
    /\ cycle.scan.id = ""
    /\ ~stories.has_close_to_junction

\* Two points inside the search distance and outside every junction, scanned
\* with the static armed and the story present: nothing found, story gone.
C12_Witness ==
  /\ Scanned
  /\ cycle.before = "A"
  /\ cycle.had.has_close_to_junction
  /\ Len(Traj) = 2
  /\ Traj[2].s <= SearchDistance
  /\ Neither(1) /\ Neither(2)
  /\ cycle.scan.distance = -1
  /\ ~stories.has_close_to_junction

\* ------------------------------------------------------------------------
\* C13  Story well-formedness: in every reachable state, a present story has
\* a non-negative distance and kind JUNCTION or PNC_JUNCTION.
\* ------------------------------------------------------------------------
C13_WellFormed ==
  stories.has_close_to_junction =>
    /\ stories.distance >= 0
    /\ stories.type \in {"JUNCTION", "PNC_JUNCTION"}

\* A story written by a scan that found a plain junction ahead of the
\* trajectory start.
C13_Witness ==
  /\ Scanned
  /\ stories.has_close_to_junction
  /\ stories.type = "JUNCTION"
  /\ stories.distance > 0

\* ------------------------------------------------------------------------
\* C14 as stated  No false plain-junction entry after a PNC overlap: when the
\* previous cycle's scan was decided by a point in a PNC junction and plain
\* junction A, the story after this cycle's Update is never JUNCTION with id
\* A, whatever the trajectory of this cycle.
\* ------------------------------------------------------------------------
C14_NeverPlainAfterOverlap ==
  (Scanned /\ cycle.after.hit) =>
    ~(/\ stories.has_close_to_junction
      /\ stories.type = "JUNCTION"
      /\ stories.id = cycle.after.id)

\* ------------------------------------------------------------------------
\* C14 amended  After a cycle decided by a point in a PNC junction and plain
\* junction A, the story after the very next Update is JUNCTION with id A
\* only if that scan examined a point in neither kind before it reached A;
\* when the first examined point of the next trajectory is in plain junction
\* A only, the story is absent after that Update.
\* ------------------------------------------------------------------------
C14_PlainAfterOverlapOnlyPastGap ==
  (Scanned /\ cycle.after.hit) =>
    /\ (/\ stories.has_close_to_junction
        /\ stories.type = "JUNCTION"
        /\ stories.id = cycle.after.id) =>
         (cycle.scan.examined >= 2 /\ Neither(1))
    /\ (Examined(1) /\ PlainOnly(1) /\ PlainId(1) = cycle.after.id) =>
         ~stories.has_close_to_junction

\* The cycle before was decided by the overlap of the PNC junction with "A"
\* and left a PNC_JUNCTION story; this cycle's trajectory starts in "A" only
\* and goes on into plain junction "B": no JUNCTION story, the story is gone.
C14_Witness ==
  /\ Scanned
  /\ cycle.calls = 1
  /\ cycle.after = [hit |-> TRUE, id |-> "A"]
  /\ cycle.had.type = "PNC_JUNCTION"
  /\ Len(Traj) = 2
  /\ PlainOnly(1) /\ PlainId(1) = "A"
  /\ PlainOnly(2) /\ PlainId(2) = "B"
  /\ ~stories.has_close_to_junction

\* ------------------------------------------------------------------------
\* C15  Plain-only branch frame: a scan whose decisive point matches a plain
\* junction only, suppressed or reported, leaves the static at the value it
\* had just before that point was examined.
\* ------------------------------------------------------------------------
C15_PlainBranchFrame ==
  (Scanned /\ cycle.scan.examined >= 1 /\ PlainOnly(cycle.scan.examined)) =>
    overlapping_junction_id = StaticAt(cycle.scan.examined)

\* The static held "A"; the first point is in plain junction "B" only, the
\* scan reported JUNCTION "B" and the static still holds "A".
C15_Witness ==
  /\ Scanned
  /\ cycle.before = "A"
  /\ PlainOnly(1) /\ PlainId(1) = "B"
  /\ cycle.scan.type = "JUNCTION" /\ cycle.scan.id = "B"
  /\ overlapping_junction_id = "A"

\* The first candidate of a map answer can be used: there is one, it is not
\* null and its polygon has at least 3 vertices.
FirstUsable(candidates) ==
  /\ Len(candidates) >= 1
  /\ ~candidates[1].null
  /\ candidates[1].point_size >= 3

\* A later candidate of a map answer could be used.
LaterUsable(candidates) ==
  \E k \in 2..Len(candidates) :
    ~candidates[k].null /\ candidates[k].point_size >= 3

\* ------------------------------------------------------------------------
\* C16  Concurrent scans corrupt the debounce: two calls whose loop
\* iterations interleave on the same static can return a result, or leave a
\* static, that neither sequential order of the two calls produces.  Calls
\* that do not interleave always produce what one of the two orders
\* produces, and a call running alone never suppresses a plain junction it
\* reaches right after a point outside every junction: both can fail only
\* for a call that another call's iteration cut into.
\* ------------------------------------------------------------------------
\* The point ends the loop: it matches a junction of either kind.
Decisive(point) ==
  IsPointInPNCJunction(point).found \/ IsPointInJunction(point).found

Returned(r) == [id |-> r.id, type |-> r.type, distance |-> r.distance]

\* What call ta followed by call tb return and leave, from static h.
Sequential(ta, tb, h) ==
  LET a == GetNearestJunction(ta, h)
      b == GetNearestJunction(tb, a.overlapping)
  IN [first |-> Returned(a), second |-> Returned(b), static |-> b.overlapping]

AllDone == \A k \in DOMAIN scans : scans[k].done

\* Both calls are over and what they returned and left is what neither
\* order of the two calls returns and leaves.
Corrupted ==
  /\ Len(scans) = 2
  /\ AllDone
  /\ [first |-> Returned(scans[1].r), second |-> Returned(scans[2].r),
      static |-> overlapping_junction_id]
       # Sequential(scans[1].trajectory_point, scans[2].trajectory_point,
                    scans[1].entry)
  /\ [first |-> Returned(scans[2].r), second |-> Returned(scans[1].r),
      static |-> overlapping_junction_id]
       # Sequential(scans[2].trajectory_point, scans[1].trajectory_point,
                    scans[1].entry)

\* Call k has just ended without a report on a point in a plain junction
\* only, having classified a point outside every junction right before it.
SuppressedAfterGap(k) ==
  LET c == scans[k]
      n == Len(c.visited)
  IN /\ c.done
     /\ n >= 2
     /\ ~Decisive(c.trajectory_point[n - 1])
     /\ IsPointInJunction(c.trajectory_point[n]).found
     /\ ~IsPointInPNCJunction(c.trajectory_point[n]).found
     /\ c.r.distance = -1

C16_CorruptionByInterleaving ==
  /\ Corrupted => \E k \in DOMAIN scans : scans[k].overlapped
  /\ \A k \in DOMAIN scans : SuppressedAfterGap(k) => scans[k].overlapped

\* Both calls are over; one of them passed a point outside every junction
\* and then ended without a report on plain junction "A", and the results
\* and the static together are what neither order of the calls gives.
C16_Witness ==
  /\ Corrupted
  /\ \E k \in DOMAIN scans : SuppressedAfterGap(k)

\* ------------------------------------------------------------------------
\* C17  First-candidate classification: for each kind a point is inside a
\* junction iff the map's candidate list is non-empty, its first element is
\* not null and that element's polygon has at least 3 vertices, and the id is
\* the first candidate's; later candidates are never considered, so the scan
\* takes a point whose first candidates are unusable as matching neither
\* kind: it clears the static, reports nothing and does not leave the loop.
\* ------------------------------------------------------------------------
C17_FirstCandidate ==
  \A k \in DOMAIN scans :
    LET c == scans[k]
    IN \A i \in 1..Len(c.trajectory_point) :
         LET point == c.trajectory_point[i]
             junctions == GetJunctions(point.xy)
             pnc_junctions == GetPNCJunctions(point.xy)
             junction == IsPointInJunction(point)
             pnc == IsPointInPNCJunction(point)
         IN /\ junction.found <=> FirstUsable(junctions)
            /\ junction.found => junction.id = junctions[1].id
            /\ pnc.found <=> FirstUsable(pnc_junctions)
            /\ pnc.found => pnc.id = pnc_junctions[1].id
            /\ (/\ c.i = i + 1
                /\ c.visited # <<>>
                /\ c.visited[Len(c.visited)] = i
                /\ ~FirstUsable(junctions)
                /\ ~FirstUsable(pnc_junctions)) =>
                 /\ c.r.distance = -1
                 /\ c.r.overlapping = ""
                 /\ overlapping_junction_id = ""
                 /\ ~c.r.brk

\* The call has just classified its first point, whose first PNC candidate
\* is null and whose first plain candidate has a two-vertex polygon, a usable
\* candidate following in both lists: the armed static is cleared, nothing
\* is reported and the loop goes on.
C17_Witness ==
  /\ Len(scans) = 1
  /\ scans[1].entry = "A"
  /\ scans[1].visited = <<1>>
  /\ LET junctions == GetJunctions(scans[1].trajectory_point[1].xy)
         pnc_junctions == GetPNCJunctions(scans[1].trajectory_point[1].xy)
     IN /\ Len(junctions) >= 1 /\ Len(pnc_junctions) >= 1
        /\ ~junctions[1].null /\ junctions[1].point_size < 3
        /\ pnc_junctions[1].null
        /\ LaterUsable(junctions) /\ LaterUsable(pnc_junctions)
  /\ ~scans[1].done
  /\ overlapping_junction_id = ""

\* ------------------------------------------------------------------------
\* C18  Scan termination: a scan of a non-empty trajectory terminates; it
\* classifies each point at most once, in increasing index order; it
\* classifies no point after the first point that matches a junction of
\* either kind or the first point beyond the search distance; so it
\* classifies at most as many points as lie within the search distance.
\* ------------------------------------------------------------------------
C18_Bounded ==
  \A k \in DOMAIN scans :
    LET c == scans[k]
        tp == c.trajectory_point
        within == {j \in 1..Len(tp) : tp[j].s <= SearchDistance}
    IN /\ Len(c.visited) <= Len(tp)
       /\ \A n \in 1..Len(c.visited) : c.visited[n] = n
       /\ c.r.examined = Len(c.visited)
       /\ \A n \in 1..Len(c.visited) :
            /\ tp[n].s <= SearchDistance
            /\ tp[n].s - c.s_start <= SearchDistance
            /\ \A j \in 1..(n - 1) :
                 ~Decisive(tp[j]) /\ tp[j].s <= SearchDistance
       /\ Len(c.visited) <= Cardinality(within)
       /\ c.done =>
            LET whole == GetNearestJunction(tp, c.entry)
            IN /\ whole.examined = Len(c.visited)
               /\ whole.id = c.r.id
               /\ whole.type = c.r.type
               /\ whole.distance = c.r.distance
               /\ whole.overlapping = overlapping_junction_id

C18_Terminates ==
  /\ [](C18_Bounded)
  /\ <>(\A k \in DOMAIN scans : scans[k].done)

\* The call is over after one point of two: the first point, in plain
\* junction "A" only while the static held "A", ended it without a report,
\* and the second point, within the search distance, was never classified.
C18_Witness ==
  /\ Len(scans) = 1
  /\ scans[1].done
  /\ scans[1].entry = "A"
  /\ Len(scans[1].trajectory_point) = 2
  /\ scans[1].visited = <<1>>
  /\ IsPointInJunction(scans[1].trajectory_point[1]).id = "A"
  /\ ~IsPointInPNCJunction(scans[1].trajectory_point[1]).found
  /\ scans[1].r.distance = -1
  /\ scans[1].trajectory_point[2].s <= SearchDistance

\* ------------------------------------------------------------------------
\* C19  Independence from the prior static: for a trajectory whose first
\* point is examined and is not a plain-only match, scans started from any
\* two values of the static return the same id, kind and distance, classify
\* the same points and leave the same static: the scan Update made from one
\* value agrees with the scan of the same trajectory from every other value.
\* ------------------------------------------------------------------------
C19_Independent ==
  (Scanned /\ Examined(1) /\ ~PlainOnly(1)) =>
    \A h \in StaticValues \ {cycle.before} :
      cycle.scan = GetNearestJunction(Traj, h)

\* The static held "B"; the first point is outside every junction and the
\* second in plain junction "B" only: the scan reports what a scan entered
\* with an empty static reports, JUNCTION "B".
C19_Witness ==
  /\ Scanned
  /\ cycle.before = "B"
  /\ Len(Traj) = 2
  /\ Neither(1)
  /\ PlainOnly(2) /\ PlainId(2) = "B"
  /\ cycle.scan.type = "JUNCTION" /\ cycle.scan.id = "B"
  /\ cycle.scan = GetNearestJunction(Traj, "")

\* ------------------------------------------------------------------------
\* C20 as stated  No suppression without an armed overlap: when the static is
\* empty at the moment a plain-only decisive point is examined, the scan
\* returns JUNCTION with that junction's id and a distance >= 0, for every id
\* the map can return, the empty string included.
\* ------------------------------------------------------------------------
C20_NoSuppressionWhenEmpty ==
  Scanned =>
    \A i \in 1..Len(Traj) :
      (FirstMatch(i) /\ PlainOnly(i) /\ StaticAt(i) = "") =>
        /\ cycle.scan.type = "JUNCTION"
        /\ cycle.scan.id = PlainId(i)
        /\ cycle.scan.distance >= 0

====
